---------------------------- MODULE Spec2Model ----------------------------
(***************************************************************************)
(* The fetch tool of packages/fetch/src/index.ts: one invocation of the    *)
(* registered tool handler, from the request to its single response.       *)
(*                                                                         *)
(* Text is a sequence of one-character strings, so that length, slice,     *)
(* substring and includes are computed as JavaScript computes them.  The   *)
(* text of a response is a sequence of tokens: the literal fragments of    *)
(* the template strings are multi-character tokens, the interpolated       *)
(* content is spliced in character by character.                           *)
(***************************************************************************)
EXTENDS Integers, Sequences, FiniteSets, TLC

(***************************************************************************)
(* Bounds of the model.                                                    *)
(***************************************************************************)
MaxTextLen == 3        \* longest enumerated page body / markdown text
MaxSmallLength == 3    \* max_length ranges over 1..MaxSmallLength and the schema's landmarks
MaxStartIndex == 4     \* start_index ranges over 0..MaxStartIndex and BigStartIndex
BigStartIndex == 200   \* a start_index beyond every text of the model
NumInvocations == 2    \* invocations of the handler in flight at once

(***************************************************************************)
(* Program constants.                                                      *)
(***************************************************************************)
SniffLength == 100           \* pageRaw.substring(0, 100)
DefaultMaxLength == 5000     \* max_length: .default(5000)
MaxLengthLimit == 1000000    \* max_length: .max(1000000)
DefaultStartIndex == 0       \* start_index: .default(0)

Min(a, b) == IF a <= b THEN a ELSE b

(***************************************************************************)
(* JavaScript string primitives on character sequences (0-based indices).  *)
(***************************************************************************)
\* String.prototype.slice(start, end) for 0 <= start <= end
Slice(s, start, end) == SubSeq(s, start + 1, Min(end, Len(s)))

\* String.prototype.substring(start, end) for 0 <= start <= end
Substring(s, start, end) == SubSeq(s, start + 1, Min(end, Len(s)))

\* String.prototype.includes(pat)
Includes(s, pat) ==
    \E i \in 0..(Len(s) - Len(pat)) : SubSeq(s, i + 1, i + Len(pat)) = pat

\* the string a character sequence spells (a template's ${...} of a header value)
RECURSIVE Str(_)
Str(s) == IF s = <<>> THEN "" ELSE Head(s) \o Str(Tail(s))

(***************************************************************************)
(* Literals of the source.                                                 *)
(***************************************************************************)
HtmlTag == <<"<", "h", "t", "m", "l">>
TextHtml == <<"t", "e", "x", "t", "/", "h", "t", "m", "l">>

PageFailedMarker ==
  <<"<", "e", "r", "r", "o", "r", ">", "P", "a", "g", "e", " ",
    "f", "a", "i", "l", "e", "d", " ", "t", "o", " ", "b", "e",
    " ", "s", "i", "m", "p", "l", "i", "f", "i", "e", "d", " ",
    "f", "r", "o", "m", " ", "H", "T", "M", "L", "<", "/", "e",
    "r", "r", "o", "r", ">">>

ExtractFailedMarker ==
  <<"<", "e", "r", "r", "o", "r", ">", "F", "a", "i", "l", "e",
    "d", " ", "t", "o", " ", "e", "x", "t", "r", "a", "c", "t",
    " ", "c", "o", "n", "t", "e", "n", "t", " ", "f", "r", "o",
    "m", " ", "H", "T", "M", "L", "<", "/", "e", "r", "r", "o",
    "r", ">">>

NoMoreContent == "<error>No more content available.</error>"
TruncatedHead == "\n\n<error>Content truncated. Call the fetch tool with a start_index of "
TruncatedTail == " to get more content.</error>"
OnlyHttpMessage == "Only HTTP and HTTPS URLs are supported"

(***************************************************************************)
(* Inputs.                                                                 *)
(***************************************************************************)
Alphabet == {"a", " "}

RECURSIVE TextsOfLen(_)
TextsOfLen(n) ==
    IF n = 0 THEN {<<>>}
    ELSE {<<c>> \o t : c \in Alphabet, t \in TextsOfLen(n - 1)}

Texts == UNION {TextsOfLen(n) : n \in 0..MaxTextLen}

Pad(n) == [i \in 1..n |-> " "]

\* bodies whose shape matters to the classifier
MarkupBodies ==
    { HtmlTag \o <<">", "a">>,
      <<"<", "H", "T", "M", "L", ">", "a">>,
      <<"{", "}">> \o HtmlTag \o <<">">>,
      Pad(SniffLength - 5) \o HtmlTag,
      Pad(SniffLength - 4) \o HtmlTag }

Bodies == Texts \cup MarkupBodies

\* what the content-type header of the response holds
NoHeader == [present |-> FALSE, value |-> <<>>]
Header(v) == [present |-> TRUE, value |-> v]
ContentTypeHeaders ==
    { NoHeader,
      Header(TextHtml),
      Header(TextHtml \o <<";", " ", "c", "h", "a", "r", "s", "e", "t", "=",
                            "u", "t", "f", "-", "8">>),
      Header(<<"a", "p", "p", "l", "i", "c", "a", "t", "i", "o", "n", "/",
               "j", "s", "o", "n">>) }

Statuses == {200, 404, 500}

\* the messages of the errors fetch() and response.text() reject with
TransportErrors == {"The operation was aborted due to timeout", "fetch failed"}

\* a URL the schema's z.string().url() accepts: scheme and the rest
Urls == { [scheme |-> s, rest |-> "//example.com/doc"] :
            s \in {"http", "HTTPS", "ftp"} }

MaxLengths == (1..MaxSmallLength) \cup {DefaultMaxLength, MaxLengthLimit}
StartIndexes == (DefaultStartIndex..MaxStartIndex) \cup {BigStartIndex}

\* what JSDOM + Readability + Turndown make of a page: the parser or the
\* extractor throws, no article is found, or an article is converted
ReaderOutcomes ==
    { [parse |-> "throws", markdown |-> <<>>],
      [parse |-> "null", markdown |-> <<>>] }
    \cup { [parse |-> "article", markdown |-> t] : t \in Texts }

NoReader == [parse |-> "unused", markdown |-> <<>>]


(***************************************************************************)
(* The state of one invocation of the tool handler.                        *)
(***************************************************************************)
VARIABLES
    pc,            \* "idle", "awaitFetch", "awaitText", "done"
    url,           \* request: url
    max_length,    \* request: max_length
    start_index,   \* request: start_index
    raw,           \* request: raw
    trace,         \* the steps the invocation has taken, in order
    httpResponse,  \* the Response fetch() resolved with: status and content-type header
    netError,      \* the message of the error fetch() or response.text() rejected with
    pageRaw,       \* the text response.text() resolved with
    reader,        \* what the extraction libraries made of the page, when they ran
    content,       \* fetchUrl's first return value
    prefix,        \* fetchUrl's second return value
    result,        \* the handler's return value: text and isError
    \* a caller that walks a document by following the continuation instructions
    walk,          \* the request it repeats and the page the server serves
    walkText,      \* the rendered text the handler paginated on the last call
    walkSlices,    \* the slices the caller has read, in order
    walkNext       \* the start_index the last response named, if any

handlerVars == <<pc, url, max_length, start_index, raw, trace, httpResponse,
                 netError, pageRaw, reader, content, prefix, result>>

walkVars == <<walk, walkText, walkSlices, walkNext>>

(***************************************************************************)
(* Invocations in flight at once: the event loop runs one handler up to    *)
(* its next await, then any other.                                         *)
(***************************************************************************)
VARIABLES
    calls,         \* the locals of each invocation
    given          \* what each invocation was given: its request, and what the
                   \* network and the extraction libraries answered it

concVars == <<calls, given>>

vars == <<handlerVars, walkVars, concVars>>

Invocations == 1..NumInvocations

NoUrl == [scheme |-> "", rest |-> ""]
NoResponse == [status |-> 0, header |-> NoHeader]
NoResult == [text |-> <<>>, isError |-> FALSE]
NoWalk == [url |-> NoUrl, max_length |-> DefaultMaxLength, raw |-> FALSE,
           header |-> NoHeader, body |-> <<>>, reader |-> NoReader]

(***************************************************************************)
(* new URL(url): href and protocol.                                        *)
(***************************************************************************)
ToLower(scheme) == IF scheme = "HTTPS" THEN "https" ELSE scheme

Href(u) == u.scheme \o ":" \o u.rest

Protocol(u) == ToLower(u.scheme) \o ":"

IsSupportedProtocolWithFtp(u) == Protocol(u) \in {"http:", "https:", "ftp:"}

IsSupportedProtocol(u) == Protocol(u) \in {"http:", "https:"}

(***************************************************************************)
(* extractContentFromHtml                                                  *)
(***************************************************************************)
extractContentFromHtmlFallsBack(html, rd) ==
    IF rd.parse = "article" THEN rd.markdown ELSE html

extractContentFromHtml(html, rd) ==
    CASE rd.parse = "throws" -> ExtractFailedMarker
      [] rd.parse = "null" -> PageFailedMarker
      [] OTHER -> rd.markdown

(***************************************************************************)
(* fetchUrl                                                                *)
(***************************************************************************)
ResponseOk(status) == 200 <= status /\ status <= 299

\* response.headers.get('content-type') || ''
ContentTypeOf(header) == IF header.present THEN header.value ELSE <<>>

isPageHtmlWholeBody(body, contentType) ==
    \/ Includes(body, HtmlTag)
    \/ Includes(contentType, TextHtml)
    \/ contentType = <<>>

isPageHtml(body, contentType) ==
    \/ Includes(Substring(body, 0, SniffLength), HtmlTag)
    \/ Includes(contentType, TextHtml)
    \/ contentType = <<>>

RawPrefix(contentType) ==
    << "Content type ", Str(contentType),
       " cannot be simplified to markdown, but here is the raw content:\n" >>

UsesExtractorIgnoresRaw(body, contentType, forceRaw) == isPageHtml(body, contentType)

\* the branch fetchUrl takes once the body is read
UsesExtractor(body, contentType, forceRaw) ==
    isPageHtml(body, contentType) /\ ~forceRaw

\* fetchUrl's return value, and whether it called extractContentFromHtml
fetchUrlReturn(body, contentType, forceRaw, rd) ==
    IF UsesExtractor(body, contentType, forceRaw)
    THEN [content |-> extractContentFromHtml(body, rd), prefix |-> <<>>,
          extracted |-> TRUE]
    ELSE [content |-> body, prefix |-> RawPrefix(contentType),
          extracted |-> FALSE]

StatusMessage(u, status) ==
    << "Failed to fetch ", Href(u), " - status code ", ToString(status) >>

\* the catch clause of fetchUrl
fetchUrlError(u, message) == << "Failed to fetch ", Href(u), ": " >> \o message

(***************************************************************************)
(* The tool handler: pagination and the response.                          *)
(***************************************************************************)
Continuation(nextStart) == << TruncatedHead, ToString(nextStart), TruncatedTail >>

SentinelEmpty == <<>>

\* finalContent when there is nothing to return
Sentinel == << NoMoreContent >>

\* start_index >= originalLength
PastEnd(start, originalLength) == start >= originalLength

TruncatedContentEndAtMax(text, start, maxLen) == Slice(text, start, maxLen)

\* content.slice(start_index, start_index + max_length)
TruncatedContent(text, start, maxLen) == Slice(text, start, start + maxLen)

ContinuationDueAtMax(actualContentLength, maxLen, remainingContent) ==
    actualContentLength = maxLen

\* actualContentLength === max_length && remainingContent > 0
ContinuationDue(actualContentLength, maxLen, remainingContent) ==
    actualContentLength = maxLen /\ remainingContent > 0

NextStartFromLength(start, actualContentLength) == actualContentLength

\* nextStart
NextStart(start, actualContentLength) == start + actualContentLength

FinalContentTrims(text, start, maxLen) ==
    LET originalLength == Len(text) IN
    IF PastEnd(start, originalLength)
    THEN Sentinel
    ELSE LET truncatedContent == TruncatedContent(text, start, maxLen)
             actualContentLength == Len(truncatedContent)
             remainingContent == originalLength - (start + actualContentLength)
         IN IF \A i \in DOMAIN truncatedContent : truncatedContent[i] = " "
            THEN Sentinel
            ELSE IF ContinuationDue(actualContentLength, maxLen, remainingContent)
                 THEN truncatedContent
                      \o Continuation(NextStart(start, actualContentLength))
                 ELSE truncatedContent

FinalContent(text, start, maxLen) ==
    LET originalLength == Len(text) IN
    IF PastEnd(start, originalLength)
    THEN Sentinel
    ELSE LET truncatedContent == TruncatedContent(text, start, maxLen)
             actualContentLength == Len(truncatedContent)
             remainingContent == originalLength - (start + actualContentLength)
         IN IF truncatedContent = <<>>
            THEN Sentinel
            ELSE IF ContinuationDue(actualContentLength, maxLen, remainingContent)
                 THEN truncatedContent
                      \o Continuation(NextStart(start, actualContentLength))
                 ELSE truncatedContent

SuccessResultNoPrefix(pfx, u, finalContent) ==
    [text |-> << "Contents of ", Href(u), ":\n" >> \o finalContent,
     isError |-> FALSE]

SuccessResult(pfx, u, finalContent) ==
    [text |-> pfx \o << "Contents of ", Href(u), ":\n" >> \o finalContent,
     isError |-> FALSE]

ErrorResultNoFlag(message) ==
    [text |-> << "Failed to fetch content: " >> \o message, isError |-> FALSE]

ErrorResult(message) ==
    [text |-> << "Failed to fetch content: " >> \o message, isError |-> TRUE]

(***************************************************************************)
(* Initial state and actions.                                              *)
(***************************************************************************)
\* the locals of an invocation that has not started
NoCall ==
    [pc |-> "idle", url |-> NoUrl, max_length |-> DefaultMaxLength,
     start_index |-> DefaultStartIndex, raw |-> FALSE, trace |-> <<>>,
     httpResponse |-> NoResponse, netError |-> "", pageRaw |-> <<>>,
     reader |-> NoReader, content |-> <<>>, prefix |-> <<>>, result |-> NoResult]

NoGiven ==
    [url |-> NoUrl, max_length |-> DefaultMaxLength,
     start_index |-> DefaultStartIndex, raw |-> FALSE,
     httpResponse |-> NoResponse, netError |-> "", pageRaw |-> <<>>,
     reader |-> NoReader]

ConcInit ==
    /\ calls = [i \in Invocations |-> NoCall]
    /\ given = [i \in Invocations |-> NoGiven]

HandlerInit ==
    /\ pc = "idle"
    /\ url = NoUrl
    /\ max_length = DefaultMaxLength
    /\ start_index = DefaultStartIndex
    /\ raw = FALSE
    /\ trace = <<>>
    /\ httpResponse = NoResponse
    /\ netError = ""
    /\ pageRaw = <<>>
    /\ reader = NoReader
    /\ content = <<>>
    /\ prefix = <<>>
    /\ result = NoResult

Init ==
    /\ HandlerInit
    /\ walk = NoWalk
    /\ walkText = <<>>
    /\ walkSlices = <<>>
    /\ walkNext = [has |-> FALSE, index |-> 0]
    /\ ConcInit

\* the handler runs up to its first await: URL validation, then fetch()
Call(u, maxLen, start, forceRaw) ==
    /\ pc = "idle"
    /\ url' = u
    /\ max_length' = maxLen
    /\ start_index' = start
    /\ raw' = forceRaw
    /\ IF IsSupportedProtocol(u)
       THEN /\ pc' = "awaitFetch"
            /\ trace' = trace \o << "validate", "fetch" >>
            /\ UNCHANGED result
       ELSE /\ pc' = "done"
            /\ trace' = trace \o << "validate", "catch" >>
            /\ result' = ErrorResult(<< OnlyHttpMessage >>)
    /\ UNCHANGED <<httpResponse, netError, pageRaw, reader, content, prefix>>

\* fetch() rejects: timeout or network failure
FetchRejects(err) ==
    /\ pc = "awaitFetch"
    /\ pc' = "done"
    /\ trace' = Append(trace, "catch")
    /\ netError' = err
    /\ result' = ErrorResult(fetchUrlError(url, << err >>))
    /\ UNCHANGED <<url, max_length, start_index, raw, httpResponse,
                   pageRaw, reader, content, prefix>>

\* fetch() resolves with a Response
FetchResolves(status, header) ==
    /\ pc = "awaitFetch"
    /\ httpResponse' = [status |-> status, header |-> header]
    /\ IF ResponseOk(status)
       THEN /\ pc' = "awaitText"
            /\ trace' = Append(trace, "text")
            /\ UNCHANGED result
       ELSE /\ pc' = "done"
            /\ trace' = Append(trace, "catch")
            /\ result' = ErrorResult(fetchUrlError(url, StatusMessage(url, status)))
    /\ UNCHANGED <<url, max_length, start_index, raw, netError,
                   pageRaw, reader, content, prefix>>

\* response.text() rejects
TextRejects(err) ==
    /\ pc = "awaitText"
    /\ pc' = "done"
    /\ trace' = Append(trace, "catch")
    /\ netError' = err
    /\ result' = ErrorResult(fetchUrlError(url, << err >>))
    /\ UNCHANGED <<url, max_length, start_index, raw, httpResponse,
                   pageRaw, reader, content, prefix>>

\* response.text() resolves: the rest of fetchUrl and of the handler
TextResolves(body, rd) ==
    /\ pc = "awaitText"
    /\ LET contentType == ContentTypeOf(httpResponse.header)
           ret == fetchUrlReturn(body, contentType, raw, rd)
       IN /\ rd.parse = "unused" <=> ~ret.extracted
          /\ pageRaw' = body
          /\ reader' = rd
          /\ trace' = trace \o (IF ret.extracted THEN << "extract" >> ELSE <<>>)
                            \o << "paginate", "return" >>
          /\ content' = ret.content
          /\ prefix' = ret.prefix
          /\ result' = SuccessResult(ret.prefix, url,
                                     FinalContent(ret.content, start_index, max_length))
    /\ pc' = "done"
    /\ UNCHANGED <<url, max_length, start_index, raw, httpResponse, netError>>

\* one invocation, on any request and any answer of the network
Invoke ==
    /\ \E u \in Urls, maxLen \in MaxLengths, start \in StartIndexes, forceRaw \in BOOLEAN :
           Call(u, maxLen, start, forceRaw)
    /\ UNCHANGED <<walkVars, concVars>>

FetchFails ==
    /\ \E err \in TransportErrors : FetchRejects(err)
    /\ UNCHANGED <<walkVars, concVars>>

FetchAnswers ==
    /\ \E status \in Statuses, header \in ContentTypeHeaders : FetchResolves(status, header)
    /\ UNCHANGED <<walkVars, concVars>>

TextFails ==
    /\ \E err \in TransportErrors : TextRejects(err)
    /\ UNCHANGED <<walkVars, concVars>>

TextArrives ==
    /\ \E body \in Bodies, rd \in ReaderOutcomes \cup {NoReader} : TextResolves(body, rd)
    /\ UNCHANGED <<walkVars, concVars>>

Next == Invoke \/ FetchFails \/ FetchAnswers \/ TextFails \/ TextArrives

\* how often the invocation took a step
Count(step) == Cardinality({i \in DOMAIN trace : trace[i] = step})

Spec == Init /\ [][Next]_vars

(***************************************************************************)
(* What a caller reads in a successful response text:                      *)
(* <prefix>Contents of <url>:\n<slice>[<continuation instruction>].        *)
(***************************************************************************)
\* the number n a decimal numeral spells, -1 if it spells none up to BigStartIndex
ParseInt(tok) ==
    IF \E n \in 0..BigStartIndex : ToString(n) = tok
    THEN CHOOSE n \in 0..BigStartIndex : ToString(n) = tok
    ELSE -1

\* the position of the header's first token, 0 if there is none
HeaderPos(text) ==
    IF \E i \in 1..Len(text) : text[i] = "Contents of "
    THEN CHOOSE i \in 1..Len(text) :
             /\ text[i] = "Contents of "
             /\ \A j \in 1..(i - 1) : text[j] # "Contents of "
    ELSE 0

ReadPrefix(text) == SubSeq(text, 1, HeaderPos(text) - 1)

ReadHeader(text) == SubSeq(text, HeaderPos(text), HeaderPos(text) + 2)

\* what follows the header line
ReadBody(text) == SubSeq(text, HeaderPos(text) + 3, Len(text))

HasContinuation(text) ==
    LET b == ReadBody(text) IN
    /\ Len(b) >= 3
    /\ b[Len(b) - 2] = TruncatedHead
    /\ b[Len(b)] = TruncatedTail

ReadNextStart(text) == LET b == ReadBody(text) IN ParseInt(b[Len(b) - 1])

IsSentinel(text) == ReadBody(text) = << NoMoreContent >>

\* the characters of the page the response carries
ReadSlice(text) ==
    LET b == ReadBody(text) IN
    IF IsSentinel(text) THEN <<>>
    ELSE IF HasContinuation(text) THEN SubSeq(b, 1, Len(b) - 3)
    ELSE b

(***************************************************************************)
(* The walk: the caller starts at start_index 0 and calls again with the   *)
(* start_index each response names, the server serving the same page.      *)
(***************************************************************************)
WalkUrl == [scheme |-> "http", rest |-> "//example.com/doc"]

WalkInit ==
    /\ HandlerInit
    /\ \E maxLen \in MaxLengths, forceRaw \in BOOLEAN, header \in ContentTypeHeaders,
          body \in Bodies, rd \in ReaderOutcomes \cup {NoReader} :
          /\ rd.parse = "unused" <=>
                 ~UsesExtractor(body, ContentTypeOf(header), forceRaw)
          /\ walk = [url |-> WalkUrl, max_length |-> maxLen, raw |-> forceRaw,
                     header |-> header, body |-> body, reader |-> rd]
    /\ walkText = <<>>
    /\ walkSlices = <<>>
    /\ walkNext = [has |-> TRUE, index |-> DefaultStartIndex]
    /\ ConcInit

WalkCall ==
    /\ walkNext.has
    /\ Call(walk.url, walk.max_length, walkNext.index, walk.raw)
    /\ UNCHANGED <<walkVars, concVars>>

WalkFetchResolves ==
    /\ FetchResolves(200, walk.header)
    /\ UNCHANGED <<walkVars, concVars>>

WalkTextResolves ==
    /\ TextResolves(walk.body, walk.reader)
    /\ UNCHANGED <<walkVars, concVars>>

\* the caller reads the response; the invocation is over and its locals are gone
WalkRead ==
    /\ pc = "done"
    /\ ~result.isError
    /\ walkText' = content
    /\ walkSlices' = Append(walkSlices, ReadSlice(result.text))
    /\ walkNext' = IF HasContinuation(result.text)
                   THEN [has |-> TRUE, index |-> ReadNextStart(result.text)]
                   ELSE [has |-> FALSE, index |-> 0]
    /\ pc' = "idle"
    /\ url' = NoUrl
    /\ max_length' = DefaultMaxLength
    /\ start_index' = DefaultStartIndex
    /\ raw' = FALSE
    /\ trace' = <<>>
    /\ httpResponse' = NoResponse
    /\ netError' = ""
    /\ pageRaw' = <<>>
    /\ reader' = NoReader
    /\ content' = <<>>
    /\ prefix' = <<>>
    /\ result' = NoResult
    /\ UNCHANGED <<walk, concVars>>

WalkNext == WalkCall \/ WalkFetchResolves \/ WalkTextResolves \/ WalkRead

WalkSpec == WalkInit /\ [][WalkNext]_vars


(***************************************************************************)
(* Properties.                                                             *)
(***************************************************************************)
\* the invocation is over and its pipeline reached the pagination
Paginated == pc = "done" /\ Count("paginate") = 1

\* text[start : start + maxLen], from the definition of a slice
Window(text, start, maxLen) ==
    [i \in 1..(IF start >= Len(text) THEN 0 ELSE Min(maxLen, Len(text) - start))
        |-> text[start + i]]

\* C1: the response carries a continuation instruction exactly when the slice
\* is max_length long and text remains beyond it, and the instruction names
\* start_index + length(slice).
C1_ContinuationIff ==
    Paginated =>
        LET slice == ReadSlice(result.text) IN
        /\ HasContinuation(result.text) <=>
               (Len(slice) = max_length /\ start_index + Len(slice) < Len(content))
        /\ HasContinuation(result.text) =>
               ReadNextStart(result.text) = start_index + Len(slice)

C1_Witness ==
    /\ Paginated
    /\ HasContinuation(result.text)
    /\ start_index > 0
    /\ ReadNextStart(result.text) = start_index + max_length

\* C2: for 0 <= start_index < length(text) the slice is
\* text[start_index : start_index + max_length], of length
\* min(max_length, length(text) - start_index), never longer than max_length.
C2_SliceIsWindow ==
    (Paginated /\ start_index < Len(content)) =>
        LET slice == ReadSlice(result.text) IN
        /\ slice = Window(content, start_index, max_length)
        /\ Len(slice) = Min(max_length, Len(content) - start_index)
        /\ Len(slice) <= max_length

C2_Witness ==
    /\ Paginated
    /\ 0 < start_index
    /\ start_index + max_length < Len(content)
    /\ max_length > 1
    /\ ReadSlice(result.text) = Window(content, start_index, max_length)

\* C4: for start_index >= length(text), also on an empty text, the response
\* is the sentinel without a continuation instruction, and it is a success:
\* isError is not set and nothing was thrown.
C4_SentinelPastEnd ==
    (Paginated /\ start_index >= Len(content)) =>
        /\ IsSentinel(result.text)
        /\ ~HasContinuation(result.text)
        /\ ~result.isError
        /\ Count("catch") = 0

C4_Witness ==
    /\ Paginated
    /\ Len(content) > 0
    /\ start_index = Len(content)
    /\ IsSentinel(result.text)
    /\ ~result.isError

\* the concatenation of a sequence of texts
RECURSIVE Concat(_)
Concat(ss) == IF ss = <<>> THEN <<>> ELSE Head(ss) \o Concat(Tail(ss))

Ceil(n, d) == (n + d - 1) \div d

\* C3: walking a text of length L > 0 with max_length M from start_index 0 by
\* the continuation instructions, call k returns characters
\* [(k-1)*M, min(k*M, L)), every call but the last carries a continuation, the
\* walk ends after exactly ceil(L/M) calls, and the slices concatenate to the
\* whole text.
C3_WalkCoversText ==
    LET L == Len(walkText)
        M == walk.max_length
        n == Len(walkSlices)
    IN (n > 0 /\ L > 0) =>
        /\ \A k \in 1..n :
               walkSlices[k] = [i \in 1..(Min(k * M, L) - (k - 1) * M)
                                   |-> walkText[(k - 1) * M + i]]
        /\ n <= Ceil(L, M)
        /\ walkNext.has <=> n < Ceil(L, M)
        /\ walkNext.has => walkNext.index = n * M
        /\ ~walkNext.has => Concat(walkSlices) = walkText

C3_Witness ==
    /\ Len(walkSlices) = 3
    /\ ~walkNext.has
    /\ Len(walkText) = 2 * walk.max_length + 1
    /\ walk.max_length > 1
    /\ Concat(walkSlices) = walkText

(***************************************************************************)
(* What the claims say of a request and of the fetched payload, read from  *)
(* the inputs of the invocation.                                           *)
(***************************************************************************)
\* the tokens of a text
Tokens(text) == {text[i] : i \in DOMAIN text}

\* the first 100 characters of the body contain the root-tag opener <html
SniffsHtml(body) ==
    \E i \in 1..(Min(Len(body), 100) - 4) :
        /\ body[i] = "<"
        /\ body[i + 1] = "h"
        /\ body[i + 2] = "t"
        /\ body[i + 3] = "m"
        /\ body[i + 4] = "l"

\* the content type the response declared, empty when it declared none
Declared == IF httpResponse.header.present THEN httpResponse.header.value ELSE <<>>

DeclaresMarkup == Includes(Declared, TextHtml)

DeclaresNonMarkup == Declared # <<>> /\ ~DeclaresMarkup

\* the note that the content type could not be simplified
Note ==
    << "Content type ", Str(Declared),
       " cannot be simplified to markdown, but here is the raw content:\n" >>

\* the pagination rules of C1, C2 and C4, of a text
PaginatedAs(text) ==
    LET slice == ReadSlice(result.text) IN
    /\ slice = Window(text, start_index, max_length)
    /\ IsSentinel(result.text) <=> start_index >= Len(text)
    /\ HasContinuation(result.text) <=>
           (Len(slice) = max_length /\ start_index + Len(slice) < Len(text))
    /\ HasContinuation(result.text) =>
           ReadNextStart(result.text) = start_index + Len(slice)

\* the fetched text reached the paginator as it was fetched
PassedThrough == Count("extract") = 0 /\ content = pageRaw

\* C5 (as claimed): a payload declared as a non-markup media type is classified
\* Other whatever its body, so with raw=false it is passed through without
\* extraction or conversion.
C5_DeclaredTypeWins ==
    (Paginated /\ DeclaresNonMarkup /\ ~raw) => PassedThrough

\* C5 (amended): a payload declared as a non-markup media type is classified
\* Other exactly when its first 100 characters do not contain <html; then with
\* raw=false it is passed through, otherwise it goes through the extractor.
C5_DeclaredTypeUnlessSniffed ==
    (Paginated /\ DeclaresNonMarkup /\ ~raw) =>
        IF SniffsHtml(pageRaw)
        THEN Count("extract") = 1
        ELSE PassedThrough /\ ReadPrefix(result.text) = Note

C5_Witness ==
    /\ Paginated
    /\ DeclaresNonMarkup
    /\ ~raw
    /\ ~SniffsHtml(pageRaw)
    /\ \E i \in 1..Len(pageRaw) : pageRaw[i] = "<"
    /\ PassedThrough

\* the scheme of the request's URL is neither http nor https
NeitherHttpNorHttps == url.scheme \notin {"http", "https", "HTTP", "HTTPS", ""}

\* C6: a URL whose scheme is not http or https is rejected before any network
\* call: the network fetch is never reached, and the invocation ends with a
\* failure whose message says that only HTTP and HTTPS URLs are supported.
C6_SchemeRejectedBeforeNetwork ==
    NeitherHttpNorHttps =>
        /\ Count("fetch") = 0
        /\ pc = "done"
        /\ result.isError
        /\ result.text = << "Failed to fetch content: ",
                            "Only HTTP and HTTPS URLs are supported" >>

C6_Witness ==
    /\ pc = "done"
    /\ url.scheme = "ftp"
    /\ result.isError
    /\ Count("fetch") = 0

\* the three kinds of error that end the pipeline
ValidationFailed == NeitherHttpNorHttps
TransportFailed == netError # ""
StatusFailed == httpResponse.status # 0 /\ ~(httpResponse.status \in 200..299)
ErrorOccurred == ValidationFailed \/ TransportFailed \/ StatusFailed

\* one outcome; isError exactly after an error; then no retry, no extraction,
\* no pagination, and the text is the failure message alone
OneOutcome ==
    /\ Count("return") + Count("catch") = 1
    /\ result.isError <=> ErrorOccurred
    /\ ErrorOccurred =>
           /\ Count("fetch") <= 1
           /\ Count("extract") = 0
           /\ Count("paginate") = 0
           /\ Head(result.text) = "Failed to fetch content: "
           /\ HeaderPos(result.text) = 0
           /\ StatusFailed => ToString(httpResponse.status) \in Tokens(result.text)
    /\ ~ErrorOccurred =>
           /\ Count("paginate") = 1
           /\ HeaderPos(result.text) > 0

\* C7 (as claimed): every invocation yields one outcome, isError is set exactly
\* after a validation, transport or status error, and every failure message
\* includes the target URL.
C7_FailureNamesUrl ==
    pc = "done" =>
        /\ OneOutcome
        /\ ErrorOccurred => Href(url) \in Tokens(result.text)

\* C7 (amended): the same, but the failure message includes the target URL
\* after a transport or status error only; after a validation error it is
\* the statement that only HTTP and HTTPS URLs are supported.
C7_OneOutcome ==
    pc = "done" =>
        /\ OneOutcome
        /\ (ErrorOccurred /\ ~ValidationFailed) => Href(url) \in Tokens(result.text)
        /\ ValidationFailed =>
               result.text = << "Failed to fetch content: ",
                                "Only HTTP and HTTPS URLs are supported" >>

C7_Witness ==
    /\ pc = "done"
    /\ StatusFailed
    /\ result.isError
    /\ Href(url) \in Tokens(result.text)
    /\ ToString(httpResponse.status) \in Tokens(result.text)

\* C8: with raw=true the extractor is never invoked, the paginator gets the
\* fetched text unmodified and slices it by the usual rules, and the response
\* is prefixed with the note that the content type could not be simplified.
C8_RawBypassesExtraction ==
    raw =>
        /\ Count("extract") = 0
        /\ Paginated =>
               /\ content = pageRaw
               /\ PaginatedAs(pageRaw)
               /\ ReadPrefix(result.text) = Note

C8_Witness ==
    /\ Paginated
    /\ raw
    /\ DeclaresMarkup
    /\ SniffsHtml(pageRaw)
    /\ HasContinuation(result.text)

ExtractionFailed == reader.parse \in {"throws", "null"}

\* C9: when extraction of a Markup payload fails, the pipeline goes on: the
\* rendered text is the failure marker, never the raw markup, it is paginated
\* like any rendered text, and the response is a success.
C9_ExtractionFailureIsContent ==
    (pc = "done" /\ ExtractionFailed) =>
        /\ Paginated
        /\ content \in {PageFailedMarker, ExtractFailedMarker}
        /\ content # pageRaw
        /\ PaginatedAs(content)
        /\ ~result.isError
        /\ Count("catch") = 0

C9_Witness ==
    /\ Paginated
    /\ reader.parse = "null"
    /\ start_index > 0
    /\ HasContinuation(result.text)
    /\ ReadSlice(result.text) = Window(PageFailedMarker, start_index, max_length)

\* the content was simplified: classified Markup, raw=false, extraction succeeded
Simplified == Count("extract") = 1 /\ reader.parse = "article"

\* the response text is <prefix><header>\n<slice>, the header naming the URL
Framed ==
    /\ HeaderPos(result.text) > 0
    /\ ReadHeader(result.text) = << "Contents of ", Href(url), ":\n" >>
    /\ ReadPrefix(result.text) \in {<<>>, Note}

\* C10 (as claimed): the prefix is empty exactly when the content was
\* simplified, and is the note in every other successful case, extraction
\* failure included.
C10_PrefixUnlessSimplified ==
    Paginated =>
        /\ Framed
        /\ ReadPrefix(result.text) = <<>> <=> Simplified

\* C10 (amended): the prefix is empty exactly when the payload was classified
\* Markup and raw=false, whether extraction succeeded or failed (a failure is
\* told by the marker in the slice), and is the note for Other content and
\* for raw passthrough.
C10_PrefixUnlessExtracted ==
    Paginated =>
        /\ Framed
        /\ ReadPrefix(result.text) = <<>> <=>
               (~raw /\ (SniffsHtml(pageRaw) \/ DeclaresMarkup \/ Declared = <<>>))
        /\ ReadPrefix(result.text) = <<>> <=> Count("extract") = 1

C10_Witness ==
    /\ Paginated
    /\ ExtractionFailed
    /\ ReadPrefix(result.text) = <<>>
    /\ ReadHeader(result.text) = << "Contents of ", Href(url), ":\n" >>

(***************************************************************************)
(* Concurrent invocations.  The handler and fetchUrl keep everything in    *)
(* locals (url, max_length, start_index, raw, response, contentType,       *)
(* pageRaw, content, prefix); the module only holds the server and two     *)
(* string constants.  The steps are those of Spec, on the locals of one    *)
(* invocation.                                                             *)
(***************************************************************************)
LocalsOfFirst(cs, i) == cs[1]

\* the locals invocation i reads when it resumes: its own
Locals(cs, i) == cs[i]

\* the handler up to its first await
Called(c, u, maxLen, start, forceRaw) ==
    [c EXCEPT
       !.url = u, !.max_length = maxLen, !.start_index = start, !.raw = forceRaw,
       !.pc = IF IsSupportedProtocol(u) THEN "awaitFetch" ELSE "done",
       !.trace = IF IsSupportedProtocol(u)
                 THEN @ \o << "validate", "fetch" >>
                 ELSE @ \o << "validate", "catch" >>,
       !.result = IF IsSupportedProtocol(u) THEN @
                  ELSE ErrorResult(<< OnlyHttpMessage >>)]

\* fetch() or response.text() rejected
Rejected(c, err) ==
    [c EXCEPT
       !.pc = "done",
       !.trace = Append(@, "catch"),
       !.netError = err,
       !.result = ErrorResult(fetchUrlError(c.url, << err >>))]

\* fetch() resolved
FetchResolved(c, status, header) ==
    [c EXCEPT
       !.httpResponse = [status |-> status, header |-> header],
       !.pc = IF ResponseOk(status) THEN "awaitText" ELSE "done",
       !.trace = Append(@, IF ResponseOk(status) THEN "text" ELSE "catch"),
       !.result = IF ResponseOk(status) THEN @
                  ELSE ErrorResult(fetchUrlError(c.url, StatusMessage(c.url, status)))]

\* response.text() resolved
TextResolved(c, body, rd) ==
    LET ret == fetchUrlReturn(body, ContentTypeOf(c.httpResponse.header), c.raw, rd)
    IN [c EXCEPT
          !.pageRaw = body,
          !.reader = rd,
          !.trace = @ \o (IF ret.extracted THEN << "extract" >> ELSE <<>>)
                      \o << "paginate", "return" >>,
          !.content = ret.content,
          !.prefix = ret.prefix,
          !.result = SuccessResult(ret.prefix, c.url,
                                   FinalContent(ret.content, c.start_index, c.max_length)),
          !.pc = "done"]

\* the requests and answers of the concurrent runs
ConcRequests ==
    { [url |-> [scheme |-> "http", rest |-> "//example.com/doc"],
       max_length |-> 1, start_index |-> DefaultStartIndex, raw |-> FALSE],
      [url |-> [scheme |-> "http", rest |-> "//example.com/doc"],
       max_length |-> 2, start_index |-> 1, raw |-> FALSE],
      [url |-> [scheme |-> "HTTPS", rest |-> "//example.com/doc"],
       max_length |-> DefaultMaxLength, start_index |-> 1, raw |-> TRUE],
      [url |-> [scheme |-> "ftp", rest |-> "//example.com/doc"],
       max_length |-> DefaultMaxLength, start_index |-> DefaultStartIndex, raw |-> FALSE] }

ConcAnswers ==
    { [status |-> 200, header |-> NoHeader],
      [status |-> 200, header |-> Header(TextHtml)],
      [status |-> 200, header |-> Header(<<"a", "p", "p", "l", "i", "c", "a", "t",
                                           "i", "o", "n", "/", "j", "s", "o", "n">>)],
      [status |-> 404, header |-> NoHeader] }

ConcErrors == {"fetch failed"}

ConcBodies == { <<"a", " ">>, HtmlTag \o <<">", "a">> }

ConcReaders == { [parse |-> "null", markdown |-> <<>>],
                 [parse |-> "article", markdown |-> <<"a", "a">>] }

ConcCall(i) ==
    /\ Locals(calls, i).pc = "idle"
    /\ \E r \in ConcRequests :
          /\ calls' = [calls EXCEPT ![i] =
                 Called(Locals(calls, i), r.url, r.max_length, r.start_index, r.raw)]
          /\ given' = [given EXCEPT ![i].url = r.url, ![i].max_length = r.max_length,
                                    ![i].start_index = r.start_index, ![i].raw = r.raw]
    /\ UNCHANGED <<handlerVars, walkVars>>

ConcFetchRejects(i) ==
    /\ Locals(calls, i).pc = "awaitFetch"
    /\ \E err \in ConcErrors :
          /\ calls' = [calls EXCEPT ![i] = Rejected(Locals(calls, i), err)]
          /\ given' = [given EXCEPT ![i].netError = err]
    /\ UNCHANGED <<handlerVars, walkVars>>

ConcFetchResolves(i) ==
    /\ Locals(calls, i).pc = "awaitFetch"
    /\ \E a \in ConcAnswers :
          /\ calls' = [calls EXCEPT ![i] =
                 FetchResolved(Locals(calls, i), a.status, a.header)]
          /\ given' = [given EXCEPT ![i].httpResponse = a]
    /\ UNCHANGED <<handlerVars, walkVars>>

ConcTextRejects(i) ==
    /\ Locals(calls, i).pc = "awaitText"
    /\ \E err \in ConcErrors :
          /\ calls' = [calls EXCEPT ![i] = Rejected(Locals(calls, i), err)]
          /\ given' = [given EXCEPT ![i].netError = err]
    /\ UNCHANGED <<handlerVars, walkVars>>

ConcTextResolves(i) ==
    /\ Locals(calls, i).pc = "awaitText"
    /\ \E body \in ConcBodies, rd \in ConcReaders \cup {NoReader} :
          /\ rd.parse = "unused" <=>
                 ~UsesExtractor(body, ContentTypeOf(Locals(calls, i).httpResponse.header),
                                Locals(calls, i).raw)
          /\ calls' = [calls EXCEPT ![i] = TextResolved(Locals(calls, i), body, rd)]
          /\ given' = [given EXCEPT ![i].pageRaw = body, ![i].reader = rd]
    /\ UNCHANGED <<handlerVars, walkVars>>

ConcStarts == \E i \in Invocations : ConcCall(i)
ConcFetchFails == \E i \in Invocations : ConcFetchRejects(i)
ConcFetchAnswers == \E i \in Invocations : ConcFetchResolves(i)
ConcTextFails == \E i \in Invocations : ConcTextRejects(i)
ConcTextArrives == \E i \in Invocations : ConcTextResolves(i)

ConcNext ==
    ConcStarts \/ ConcFetchFails \/ ConcFetchAnswers \/ ConcTextFails \/ ConcTextArrives

ConcSpec == Init /\ [][ConcNext]_vars

\* the response of an invocation that runs alone on request and answers g
Alone(g) ==
    IF ~(g.url.scheme \in {"http", "https", "HTTP", "HTTPS"})
    THEN [text |-> << "Failed to fetch content: ",
                      "Only HTTP and HTTPS URLs are supported" >>,
          isError |-> TRUE]
    ELSE IF g.netError # ""
    THEN ErrorResult(fetchUrlError(g.url, << g.netError >>))
    ELSE IF ~ResponseOk(g.httpResponse.status)
    THEN ErrorResult(fetchUrlError(g.url, StatusMessage(g.url, g.httpResponse.status)))
    ELSE LET ret == fetchUrlReturn(g.pageRaw, ContentTypeOf(g.httpResponse.header),
                                   g.raw, g.reader)
         IN SuccessResult(ret.prefix, g.url,
                          FinalContent(ret.content, g.start_index, g.max_length))

\* C11: the pipeline holds no state shared by invocations: however concurrent
\* invocations interleave at their awaits, the response of each depends only
\* on its own request and its own fetched payload, and is the response it
\* would produce if it ran alone.
C11_ResponseIsOwn ==
    \A i \in Invocations :
        /\ calls[i].pc = "done" => calls[i].result = Alone(given[i])
        /\ calls[i].pc # "idle" =>
               /\ calls[i].url = given[i].url
               /\ calls[i].max_length = given[i].max_length
               /\ calls[i].start_index = given[i].start_index
               /\ calls[i].raw = given[i].raw

C11_Witness ==
    /\ calls[1].pc = "awaitText"
    /\ calls[2].pc = "done"
    /\ ~calls[2].result.isError
    /\ given[1].url # given[2].url
    /\ given[1].httpResponse # given[2].httpResponse
    /\ calls[2].result = Alone(given[2])

\* a text that is empty after trimming
Blank(text) == \A i \in DOMAIN text : text[i] \in {" ", "\t", "\n", "\r"}

\* start_index is inside the text and the slice there is whitespace only
BlankSlice ==
    /\ Paginated
    /\ start_index < Len(content)
    /\ Blank(Window(content, start_index, max_length))

\* C12 (as claimed): when 0 <= start_index < length(text) and the slice is empty
\* after trimming, the response is the sentinel, not the whitespace slice, and
\* carries no continuation.
C12_BlankSliceIsSentinel ==
    BlankSlice => (IsSentinel(result.text) /\ ~HasContinuation(result.text))

\* C12 (amended): when 0 <= start_index < length(text) the slice is returned as
\* it is, also when it is whitespace only: the slice is tested for being
\* empty, not trimmed, and the continuation follows the usual rule; the
\* sentinel is returned for start_index >= length(text) only.
C12_BlankSliceIsReturned ==
    /\ BlankSlice =>
           /\ ~IsSentinel(result.text)
           /\ ReadSlice(result.text) = Window(content, start_index, max_length)
           /\ HasContinuation(result.text) <=>
                  start_index + max_length < Len(content)
    /\ (Paginated /\ IsSentinel(result.text)) => start_index >= Len(content)

C12_Witness ==
    /\ BlankSlice
    /\ ReadSlice(result.text) = << " " >>
    /\ HasContinuation(result.text)
    /\ ReadNextStart(result.text) = start_index + 1

\* the first 100 characters of the body contain the root-tag opener in any
\* letter case
SniffsHtmlAnyCase(body) ==
    \E i \in 1..(Min(Len(body), 100) - 4) :
        /\ body[i] = "<"
        /\ body[i + 1] \in {"h", "H"}
        /\ body[i + 2] \in {"t", "T"}
        /\ body[i + 3] \in {"m", "M"}
        /\ body[i + 4] \in {"l", "L"}

\* C13: the classifier applies three rules, first match wins: Markup when the
\* first 100 characters contain the root-tag opener in any letter case, else
\* Markup when the declared content type contains text/html or none was
\* declared, Other in every remaining case.  (With raw=false a payload goes
\* through the extractor exactly when it is classified Markup.)
C13_SniffIgnoresCase ==
    (Paginated /\ ~raw) =>
        (Count("extract") = 1 <=>
            (SniffsHtmlAnyCase(pageRaw) \/ DeclaresMarkup \/ Declared = <<>>))

=============================================================================
